---- MODULE Spec2Model ----
(***************************************************************************)
(* Model of the telemetry retrieval-and-classification pipeline of         *)
(* bitergy_api (services/data_provider.py, models/*.py, routers/*.py).     *)
(*                                                                         *)
(* Numbers: the code works on floats; the model keeps every measured value *)
(* and every threshold in HALF units (230.0 V is 460, 218.5 V is 437), so  *)
(* that all thresholds of the registry are integers and every comparison   *)
(* of the code is the same comparison on the scaled integers.              *)
(*                                                                         *)
(* Python values that may be None are modelled as records: None is         *)
(* [none |-> TRUE], a number n is [num |-> n], a string s is [str |-> s].  *)
(* A dict is a function whose DOMAIN is the set of its keys.               *)
(***************************************************************************)
EXTENDS Integers, Sequences, FiniteSets, TLC

VARIABLES
    cs_pc,              \* classifier harness: "input" before, "done" after the call
    cs_value,           \* argument value of _calculate_severity
    cs_thresholds,      \* argument thresholds of _calculate_severity
    cs_severity,        \* its result
    pc,                 \* position of the request: "idle", "start", "loop", "responded"
    fn,                 \* the read function the request runs
    installation_id,    \* path parameter installation_id
    start_time,         \* query parameter start_time (historical), None otherwise
    end_time,           \* query parameter end_time (historical), None otherwise
    result,             \* what query_api.query returned: "pending", "no_tables", "tables", "error"
    batch,              \* the records iterated so far by `for table in result: for record in table.records`
    latest_data,        \* realtime accumulator latest_data
    latest_timestamp,   \* realtime accumulator latest_timestamp
    grouped_data,       \* historical accumulator grouped_data
    ret,                \* value returned by the service function
    http_status,        \* status the router answers with, 0 while pending
    wr_pc,              \* ingest request: "off", "start", "responded"
    wr_installation_id, \* path parameter installation_id of the ingest request
    wr_data,            \* the IngestData event of the request body
    wr_point,           \* the Point built by write_sensor_data, None before
    wr_writes,          \* the records handed to write_api.write, in order
    wr_outcome,         \* "pending", "no_fields", "written", "error"
    wr_ret,             \* what write_sensor_data returned
    wr_status,          \* status the ingest router answers with, 0 while pending
    q_pc,               \* store query: "off", "ready", "done"
    q_fn,               \* the read function whose Flux query is run
    q_installation_id,  \* the installation the query is built for
    q_start,            \* start of the historical range, None for a realtime query
    q_stop,             \* stop of the historical range, None for a realtime query
    q_store,            \* the points the bucket holds
    q_records,          \* the set of records of the tables the query returned
    db_pc,              \* shutdown_event: "off", "running", "closing", "closed"
    db_client,          \* module global _async_influx_client: None or a handle
    db_created,         \* number of InfluxDBClientAsync instances constructed
    db_closed,          \* the handles whose close() has completed
    db_calls,           \* the calls of get_influxdb_client so far, with what each returned
    rr_run,             \* number of repeated calls of the read function on the same batch: 0, 1
    rr_first            \* what the first of two calls on the same batch returned

vars == <<cs_pc, cs_value, cs_thresholds, cs_severity, pc, fn, installation_id,
          start_time, end_time, result, batch, latest_data, latest_timestamp,
          grouped_data, ret, http_status,
          wr_pc, wr_installation_id, wr_data, wr_point, wr_writes, wr_outcome,
          wr_ret, wr_status,
          q_pc, q_fn, q_installation_id, q_start, q_stop, q_store, q_records,
          db_pc, db_client, db_created, db_closed, db_calls,
          rr_run, rr_first>>

csVars == <<cs_pc, cs_value, cs_thresholds, cs_severity>>

reqVars == <<pc, fn, installation_id, start_time, end_time, result, batch,
             latest_data, latest_timestamp, grouped_data, ret, http_status>>

wrVars == <<wr_pc, wr_installation_id, wr_data, wr_point, wr_writes, wr_outcome,
            wr_ret, wr_status>>

qVars == <<q_pc, q_fn, q_installation_id, q_start, q_stop, q_store, q_records>>

dbVars == <<db_pc, db_client, db_created, db_closed, db_calls>>

rrVars == <<rr_run, rr_first>>

\* the ingest request, the store query, the client module and the repeated
\* call together
ioVars == <<wrVars, qVars, dbVars, rrVars>>

-----------------------------------------------------------------------------
(* Bounds *)

\* longest batch of records a request iterates
MaxBatch == 2

\* record times are 1..MaxTime
MaxTime == 2

\* threshold bounds of the classifier harness are 1..MaxBound, values 0..MaxBound+1
MaxBound == 3

\* calls of get_influxdb_client in one life of the process
MaxCalls == 4

-----------------------------------------------------------------------------
(* Python values *)

None == [none |-> TRUE]

Num(n) == [num |-> n]

Str(s) == [str |-> s]

IsNum(v) == "num" \in DOMAIN v

IsStr(v) == "str" \in DOMAIN v

\* d[k] = x on a dict
Put(d, k, x) == (k :> x) @@ d

\* d.get(k): None when the key is absent
Get(d, k) == IF k \in DOMAIN d THEN d[k] ELSE None

EmptyDict == <<>>

\* an exception raised by a constructor or a call
Raised(e) == [exc |-> e]

IsRaised(x) == "exc" \in DOMAIN x

-----------------------------------------------------------------------------
(* Strings as character sequences, for str.replace and str.title *)

LowerCase == <<"a","b","c","d","e","f","g","h","i","j","k","l","m",
               "n","o","p","q","r","s","t","u","v","w","x","y","z">>

UpperCase == <<"A","B","C","D","E","F","G","H","I","J","K","L","M",
               "N","O","P","Q","R","S","T","U","V","W","X","Y","Z">>

IsCased(c) == \E i \in 1..26 : c = LowerCase[i] \/ c = UpperCase[i]

ToUpper(c) ==
    IF \E i \in 1..26 : c = LowerCase[i]
    THEN UpperCase[CHOOSE i \in 1..26 : c = LowerCase[i]]
    ELSE c

ToLower(c) ==
    IF \E i \in 1..26 : c = UpperCase[i]
    THEN LowerCase[CHOOSE i \in 1..26 : c = UpperCase[i]]
    ELSE c

\* the characters of the measurement and field names that occur
Chars(s) ==
    CASE s = "voltage"        -> <<"v","o","l","t","a","g","e">>
      [] s = "current"        -> <<"c","u","r","r","e","n","t">>
      [] s = "active_power"   -> <<"a","c","t","i","v","e","_","p","o","w","e","r">>
      [] s = "apparent_power" -> <<"a","p","p","a","r","e","n","t","_","p","o","w","e","r">>
      [] s = "reactive_power" -> <<"r","e","a","c","t","i","v","e","_","p","o","w","e","r">>
      [] s = "power_factor"   -> <<"p","o","w","e","r","_","f","a","c","t","o","r">>
      [] s = "frequency"      -> <<"f","r","e","q","u","e","n","c","y">>
      [] s = "energy"         -> <<"e","n","e","r","g","y">>
      [] s = "temperature"    -> <<"t","e","m","p","e","r","a","t","u","r","e">>
      [] s = "humidity"       -> <<"h","u","m","i","d","i","t","y">>
      [] s = "level"          -> <<"l","e","v","e","l">>
      [] s = "phase_a"        -> <<"p","h","a","s","e","_","a">>
      [] s = "phase_b"        -> <<"p","h","a","s","e","_","b">>
      [] s = "phase_c"        -> <<"p","h","a","s","e","_","c">>
      [] s = "value"          -> <<"v","a","l","u","e">>
      [] s = "total"          -> <<"t","o","t","a","l">>
      [] s = "total_kwh"      -> <<"t","o","t","a","l","_","k","w","h">>
      [] s = "tank_1"         -> <<"t","a","n","k","_","1">>

\* s.replace('_', ' ')
Replace(s) == [i \in 1..Len(s) |-> IF s[i] = "_" THEN " " ELSE s[i]]

\* s.title(): a cased character is upper-cased when the character before it
\* is not cased (or there is none), lower-cased otherwise
Title(s) ==
    [i \in 1..Len(s) |->
        IF i > 1 /\ IsCased(s[i-1]) THEN ToLower(s[i]) ELSE ToUpper(s[i])]

\* name.replace('_', ' ').title()
TitleName(s) == Title(Replace(Chars(s)))

-----------------------------------------------------------------------------
(* core/enums.py *)

NORMAL == "Normal"

LOW == "Low"

HIGH == "High"

CRITICAL_LOW == "Critical Low"

CRITICAL_HIGH == "Critical High"

UNKNOWN == "Unknown"

SeverityLevel == {NORMAL, LOW, HIGH, CRITICAL_LOW, CRITICAL_HIGH, UNKNOWN}

-----------------------------------------------------------------------------
(* services/data_provider.py: helpers *)

get_unit_for_measurement(measurement, field) ==
    LET units == [voltage |-> "V", current |-> "A", active_power |-> "kW",
                  apparent_power |-> "kVA", reactive_power |-> "kVAR",
                  power_factor |-> "", frequency |-> "Hz", energy |-> "kWh",
                  temperature |-> "degC", humidity |-> "%", level |-> "m"]
    IN  IF measurement = "power_factor" THEN ""
        ELSE IF measurement = "energy" THEN "kWh"
        ELSE IF measurement \in DOMAIN units THEN units[measurement]
        ELSE "unknown_unit"

\* Thresholds(...): a bound that is not given stays None; the dict holds the
\* bounds that are defined
Thresholds(bounds) == bounds

\* InstallationThresholds(...): a measurement that is not given is None
InstallationThresholds(given) ==
    [m \in {"voltage", "current", "frequency", "power_factor",
            "temperature", "humidity", "level"} |-> Get(given, m)]

\* thresholds in half units: 207 -> 414, 218.5 -> 437, 241.5 -> 483, ...
get_thresholds_for_installation(id) ==
    IF id = "siteA-mainpanel"
    THEN InstallationThresholds(
           [voltage     |-> Thresholds([critical_low |-> 414, low |-> 437,
                                        high |-> 483, critical_high |-> 506]),
            current     |-> Thresholds([high |-> 160, critical_high |-> 190]),
            frequency   |-> Thresholds([critical_low |-> 96, low |-> 99,
                                        high |-> 101, critical_high |-> 104]),
            temperature |-> Thresholds([low |-> 10, high |-> 80, critical_high |-> 100]),
            humidity    |-> Thresholds([high |-> 170, critical_high |-> 190])])
    ELSE None

\* value < bound / value > bound on a value that is a str raises TypeError
SeverityTypeError == "TypeError"

\* variant: the two high rules are tried before the low rule
calculate_severity_high_first(value, thresholds) ==
    IF value = None \/ thresholds = None THEN UNKNOWN
    ELSE IF IsStr(value)
         THEN IF DOMAIN thresholds # {} THEN SeverityTypeError ELSE NORMAL
    ELSE IF "critical_low" \in DOMAIN thresholds /\ value.num < thresholds.critical_low
         THEN CRITICAL_LOW
    ELSE IF "critical_high" \in DOMAIN thresholds /\ value.num > thresholds.critical_high
         THEN CRITICAL_HIGH
    ELSE IF "high" \in DOMAIN thresholds /\ value.num > thresholds.high
         THEN HIGH
    ELSE IF "low" \in DOMAIN thresholds /\ value.num < thresholds.low
         THEN LOW
    ELSE NORMAL

\* variant: a value without thresholds is classified NORMAL
calculate_severity_no_thresholds_normal(value, thresholds) ==
    IF value = None THEN UNKNOWN
    ELSE IF thresholds = None THEN NORMAL
    ELSE IF IsStr(value)
         THEN IF DOMAIN thresholds # {} THEN SeverityTypeError ELSE NORMAL
    ELSE IF "critical_low" \in DOMAIN thresholds /\ value.num < thresholds.critical_low
         THEN CRITICAL_LOW
    ELSE IF "low" \in DOMAIN thresholds /\ value.num < thresholds.low
         THEN LOW
    ELSE IF "critical_high" \in DOMAIN thresholds /\ value.num > thresholds.critical_high
         THEN CRITICAL_HIGH
    ELSE IF "high" \in DOMAIN thresholds /\ value.num > thresholds.high
         THEN HIGH
    ELSE NORMAL

calculate_severity(value, thresholds) ==
    IF value = None \/ thresholds = None THEN UNKNOWN
    ELSE IF IsStr(value)
         THEN IF DOMAIN thresholds # {} THEN SeverityTypeError ELSE NORMAL
    ELSE IF "critical_low" \in DOMAIN thresholds /\ value.num < thresholds.critical_low
         THEN CRITICAL_LOW
    ELSE IF "low" \in DOMAIN thresholds /\ value.num < thresholds.low
         THEN LOW
    ELSE IF "critical_high" \in DOMAIN thresholds /\ value.num > thresholds.critical_high
         THEN CRITICAL_HIGH
    ELSE IF "high" \in DOMAIN thresholds /\ value.num > thresholds.high
         THEN HIGH
    ELSE NORMAL

-----------------------------------------------------------------------------
(* The classifier on its own: inputs drawn from bounded sets *)

BoundNames == {"critical_low", "low", "high", "critical_high"}

\* every combination of the four bounds defined or not, each in 1..MaxBound
ThresholdSets ==
    UNION {[S -> 1..MaxBound] : S \in SUBSET BoundNames}

ClassifierValues == {None} \cup {Num(n) : n \in 0..(MaxBound + 1)}

\* no ingest request
WriteOff ==
    /\ wr_pc = "off"
    /\ wr_installation_id = "none"
    /\ wr_data = None
    /\ wr_point = None
    /\ wr_writes = <<>>
    /\ wr_outcome = "pending"
    /\ wr_ret = None
    /\ wr_status = 0

\* no store query
QueryOff ==
    /\ q_pc = "off"
    /\ q_fn = "none"
    /\ q_installation_id = "none"
    /\ q_start = None
    /\ q_stop = None
    /\ q_store = {}
    /\ q_records = {}

\* the client module left alone
ClientOff ==
    /\ db_pc = "off"
    /\ db_client = None
    /\ db_created = 0
    /\ db_closed = {}
    /\ db_calls = <<>>

\* no repeated call
RerunOff ==
    /\ rr_run = 0
    /\ rr_first = None

\* no classifier call
ClassifierOff ==
    /\ cs_pc = "off"
    /\ cs_value = None
    /\ cs_thresholds = None
    /\ cs_severity = UNKNOWN

\* no read request
RequestOff ==
    /\ pc = "idle"
    /\ fn = "none"
    /\ installation_id = "none"
    /\ start_time = None
    /\ end_time = None
    /\ result = "pending"
    /\ batch = <<>>
    /\ latest_data = EmptyDict
    /\ latest_timestamp = None
    /\ grouped_data = EmptyDict
    /\ ret = None
    /\ http_status = 0

InitSeverity ==
    /\ cs_pc = "input"
    /\ cs_value \in ClassifierValues
    /\ cs_thresholds \in {None} \cup ThresholdSets
    /\ cs_severity = UNKNOWN
    /\ pc = "idle"
    /\ fn = "none"
    /\ installation_id = "none"
    /\ start_time = None
    /\ end_time = None
    /\ result = "pending"
    /\ batch = <<>>
    /\ latest_data = EmptyDict
    /\ latest_timestamp = None
    /\ grouped_data = EmptyDict
    /\ ret = None
    /\ http_status = 0
    /\ WriteOff
    /\ QueryOff
    /\ ClientOff
    /\ RerunOff

Classify ==
    /\ cs_pc = "input"
    /\ cs_severity' = calculate_severity(cs_value, cs_thresholds)
    /\ cs_pc' = "done"
    /\ UNCHANGED <<cs_value, cs_thresholds>>
    /\ UNCHANGED <<reqVars, ioVars>>

NextSeverity == Classify

SpecSeverity == InitSeverity /\ [][NextSeverity]_vars

-----------------------------------------------------------------------------
(* models/*.py: pydantic models *)

\* BaseModel.__init__(**kwargs).  A field declared with Field(..., alias=X)
\* is read from the keyword X; no model sets populate_by_name, so a keyword
\* spelled with the field's own name is an extra keyword, which is ignored,
\* and the field takes its default.  A field without alias is read from the
\* keyword of its name.
ModelInit(aliased, defaults, kwargs) ==
    [f \in DOMAIN defaults |->
        IF f \in aliased THEN defaults[f]
        ELSE IF f \in DOMAIN kwargs THEN kwargs[f]
        ELSE defaults[f]]

\* value: Optional[float]: None and numbers validate, a str that is not a
\* number is a ValidationError (a ValueError)
BaseVariableValue(value, unit, severity) ==
    IF IsStr(value) THEN Raised("ValidationError")
    ELSE [value |-> value, unit |-> unit, severity |-> severity]

ElectricalVariableValue(value, unit, severity) ==
    BaseVariableValue(value, unit, severity)

PhysicalVariableValue(value, unit, severity, sensor_location) ==
    IF IsStr(value) THEN Raised("ValidationError")
    ELSE [value |-> value, unit |-> unit, severity |-> severity,
          sensor_location |-> sensor_location]

\* value: float is required: None and a str that is not a number are a
\* ValidationError (a ValueError)
HistoricalDataPoint(timestamp, value, unit) ==
    IF ~IsNum(value) THEN Raised("ValidationError")
    ELSE [timestamp |-> timestamp, value |-> value, unit |-> unit]

\* a, b, c are declared with the aliases "Phase A", "Phase B", "Phase C"
PhaseData(a, b, c) ==
    ModelInit({"a", "b", "c"},
              [a |-> None, b |-> None, c |-> None],
              [a |-> a, b |-> b, c |-> c])

RealtimeElectricalData(kwargs) ==
    ModelInit({"active_power", "apparent_power", "reactive_power",
               "power_factor", "total_active_power", "total_energy_kwh"},
              [timestamp |-> None, asset_id |-> None, voltage |-> None,
               current |-> None, active_power |-> None,
               apparent_power |-> None, reactive_power |-> None,
               power_factor |-> None, frequency |-> None,
               total_active_power |-> None, total_energy_kwh |-> None],
              kwargs)

RealtimePhysicalData(kwargs) ==
    ModelInit({"level"},
              [timestamp |-> None, asset_id |-> None, temperature |-> None,
               humidity |-> None, level |-> None],
              kwargs)

GroupedHistoricalData(asset_id, start, end, data) ==
    [asset_id |-> asset_id, start_time |-> start, end_time |-> end,
     data |-> data]

-----------------------------------------------------------------------------
(* Records of the store: FluxRecord.values is a dict *)

RecordKeys == {"_measurement", "_field", "_value", "_time"}

Rec(m, f, v, t) ==
    ("_measurement" :> m) @@ ("_field" :> f) @@ ("_value" :> v) @@ ("_time" :> t)

\* the record without the key k
Drop(r, k) == [x \in (DOMAIN r) \ {k} |-> r[x]]

\* get_measurement(), get_field(), get_value(), get_time() are
\* self.values[key]: a missing key raises KeyError
Complete(r) == RecordKeys \subseteq DOMAIN r

ElectricalPairs ==
    {<<"voltage", "phase_a">>, <<"active_power", "total">>,
     <<"frequency", "value">>}

PhysicalPairs ==
    {<<"temperature", "value">>, <<"level", "value">>,
     <<"level", "tank_1">>}

\* a null, a string that is not a number, 50.0 and 230.0 (half units)
RecordValues == {None, Str("abc"), Num(100), Num(460)}

Times == 1..MaxTime

WellFormed(pairs) ==
    {Rec(p[1], p[2], v, t) : p \in pairs, v \in RecordValues, t \in Times}

\* records that lack one of the four keys; the one without a value comes
\* with every time
Lacking(m, f) ==
    {Drop(Rec(m, f, Num(460), 1), k) : k \in RecordKeys}
        \cup {Drop(Rec(m, f, Num(460), t), "_value") : t \in Times}

ElectricalRecords == WellFormed(ElectricalPairs) \cup Lacking("voltage", "phase_a")

PhysicalRecords == WellFormed(PhysicalPairs) \cup Lacking("temperature", "value")

-----------------------------------------------------------------------------
(* services/data_provider.py: the loop bodies *)

Acc(ld, ts, gd, outcome) ==
    [latest_data |-> ld, latest_timestamp |-> ts, grouped_data |-> gd,
     outcome |-> outcome]

EmptyAcc == Acc(EmptyDict, None, EmptyDict, "none")

\* variant: the time of the record read last is kept
track_latest_last(latest, time) == Num(time)

\* if latest_timestamp is None or time > latest_timestamp: latest_timestamp = time
track_latest(latest, time) ==
    IF latest = None \/ time > latest.num THEN Num(time) ELSE latest

\* body of the loop of get_realtime_electrical_data
\* outcome: "mapped", "skipped" (inner except), "raised" (leaves the loop)
realtime_electrical_record(acc, threshold_config, record) ==
    IF ~Complete(record) THEN [acc EXCEPT !.outcome = "skipped"]
    ELSE
    LET measurement == record["_measurement"]
        field == record["_field"]
        value == record["_value"]
        time == record["_time"]
        ts == track_latest(acc.latest_timestamp, time)
        ld == IF measurement \notin DOMAIN acc.latest_data
              THEN Put(acc.latest_data, measurement, EmptyDict)
              ELSE acc.latest_data
        current_thresholds ==
            IF threshold_config # None
            THEN IF measurement \in {"voltage", "current", "frequency", "power_factor"}
                 THEN threshold_config[measurement]
                 ELSE None
            ELSE None
        severity == calculate_severity(value, current_thresholds)
        vv == ElectricalVariableValue(value,
                  get_unit_for_measurement(measurement, field), severity)
    IN  IF severity = SeverityTypeError
        THEN Acc(ld, ts, acc.grouped_data, "skipped")
        ELSE IF IsRaised(vv)
        THEN Acc(ld, ts, acc.grouped_data, "raised")
        ELSE Acc(Put(ld, measurement, Put(ld[measurement], field, vv)),
                 ts, acc.grouped_data, "mapped")

\* body of the loop of get_realtime_physical_data
realtime_physical_record(acc, threshold_config, record) ==
    IF ~Complete(record) THEN [acc EXCEPT !.outcome = "skipped"]
    ELSE
    LET measurement == record["_measurement"]
        field == record["_field"]
        value == record["_value"]
        time == record["_time"]
        ts == track_latest(acc.latest_timestamp, time)
        current_thresholds ==
            IF threshold_config # None
            THEN IF measurement \in {"temperature", "humidity", "level"}
                 THEN threshold_config[measurement]
                 ELSE None
            ELSE None
    IN  IF measurement \notin DOMAIN acc.latest_data \/ field = "value"
        THEN LET severity == calculate_severity(value, current_thresholds)
                 vv == PhysicalVariableValue(value,
                           get_unit_for_measurement(measurement, field),
                           severity, Get(record, "location"))
             IN  IF severity = SeverityTypeError
                 THEN Acc(acc.latest_data, ts, acc.grouped_data, "skipped")
                 ELSE IF IsRaised(vv)
                 THEN Acc(acc.latest_data, ts, acc.grouped_data, "raised")
                 ELSE Acc(Put(acc.latest_data, measurement, vv), ts,
                          acc.grouped_data, "mapped")
        ELSE Acc(acc.latest_data, ts, acc.grouped_data, "ignored")

\* the name without the exception for frequency and energy
electrical_variable_name_with_field(measurement, field) ==
    TitleName(measurement) \o <<" ">> \o TitleName(field)

electrical_variable_name(measurement, field) ==
    IF measurement \in {"frequency", "energy"}
    THEN TitleName(measurement)
    ELSE TitleName(measurement) \o <<" ">> \o TitleName(field)

\* the name with the field appended also for the field 'value'
physical_variable_name_with_field(measurement, field, value) ==
    IF value # None
    THEN TitleName(measurement) \o <<" ">> \o TitleName(field)
    ELSE TitleName(measurement)

physical_variable_name(measurement, field, value) ==
    IF field # "value" /\ value # None
    THEN TitleName(measurement) \o <<" ">> \o TitleName(field)
    ELSE TitleName(measurement)

\* the point put at the head of its series
historical_append_at_head(acc, variable_name, time, value, unit) ==
    LET gd == IF variable_name \notin DOMAIN acc.grouped_data
              THEN Put(acc.grouped_data, variable_name, <<>>)
              ELSE acc.grouped_data
        point == HistoricalDataPoint(Num(time), value, unit)
    IN  IF IsRaised(point)
        THEN Acc(acc.latest_data, acc.latest_timestamp, gd, "skipped")
        ELSE Acc(acc.latest_data, acc.latest_timestamp,
                 Put(gd, variable_name, <<point>> \o gd[variable_name]), "mapped")

\* the lines shared by the two historical loops, after variable_name
historical_append(acc, variable_name, time, value, unit) ==
    LET gd == IF variable_name \notin DOMAIN acc.grouped_data
              THEN Put(acc.grouped_data, variable_name, <<>>)
              ELSE acc.grouped_data
        point == HistoricalDataPoint(Num(time), value, unit)
    IN  IF IsRaised(point)
        THEN Acc(acc.latest_data, acc.latest_timestamp, gd, "skipped")
        ELSE Acc(acc.latest_data, acc.latest_timestamp,
                 Put(gd, variable_name, Append(gd[variable_name], point)),
                 "mapped")

\* body of the loop of get_historical_electrical_data
historical_electrical_record(acc, record) ==
    IF ~Complete(record) THEN [acc EXCEPT !.outcome = "skipped"]
    ELSE historical_append(acc,
             electrical_variable_name(record["_measurement"], record["_field"]),
             record["_time"], record["_value"],
             get_unit_for_measurement(record["_measurement"], record["_field"]))

\* body of the loop of get_historical_physical_data
historical_physical_record(acc, record) ==
    IF ~Complete(record) THEN [acc EXCEPT !.outcome = "skipped"]
    ELSE historical_append(acc,
             physical_variable_name(record["_measurement"], record["_field"],
                                    record["_value"]),
             record["_time"], record["_value"],
             get_unit_for_measurement(record["_measurement"], record["_field"]))

-----------------------------------------------------------------------------
(* services/data_provider.py: the four read functions *)

RealtimeFunctions == {"get_realtime_electrical_data", "get_realtime_physical_data"}

HistoricalFunctions == {"get_historical_electrical_data", "get_historical_physical_data"}

ReadFunctions == RealtimeFunctions \cup HistoricalFunctions

Installations == {"siteA-mainpanel", "siteB-annex"}

\* the records the store can hand to a function: its query filters on the
\* measurement names of the function's domain
RecordsOf(f) ==
    IF f \in {"get_realtime_electrical_data", "get_historical_electrical_data"}
    THEN ElectricalRecords
    ELSE PhysicalRecords

\* one iteration of `for record in table.records` of function f
loop_body(f, id, acc, record) ==
    CASE f = "get_realtime_electrical_data" ->
           realtime_electrical_record(acc, get_thresholds_for_installation(id), record)
      [] f = "get_realtime_physical_data" ->
           realtime_physical_record(acc, get_thresholds_for_installation(id), record)
      [] f = "get_historical_electrical_data" ->
           historical_electrical_record(acc, record)
      [] f = "get_historical_physical_data" ->
           historical_physical_record(acc, record)

\* datetime.utcnow(), used when latest_timestamp is None
UtcNow == [utcnow |-> TRUE]

\* the lines after the loop of get_realtime_electrical_data
realtime_electrical_return(id, ld, ts) ==
    IF ld = EmptyDict THEN None
    ELSE
    LET phases(m) == IF m \in DOMAIN ld
                     THEN PhaseData(Get(Get(ld, m), "phase_a"),
                                    Get(Get(ld, m), "phase_b"),
                                    Get(Get(ld, m), "phase_c"))
                     ELSE None
        inner(m) == IF m \in DOMAIN ld THEN ld[m] ELSE EmptyDict
    IN  RealtimeElectricalData(
          [asset_id |-> id,
           timestamp |-> IF ts # None THEN ts ELSE UtcNow,
           voltage |-> phases("voltage"),
           current |-> phases("current"),
           active_power |-> phases("active_power"),
           apparent_power |-> phases("apparent_power"),
           reactive_power |-> phases("reactive_power"),
           power_factor |-> phases("power_factor"),
           frequency |-> Get(inner("frequency"), "value"),
           total_energy_kwh |-> Get(inner("energy"), "total_kwh"),
           total_active_power |-> Get(inner("active_power"), "total")])

\* variant: no `if not latest_data: return None`
realtime_physical_return_unchecked(id, ld, ts) ==
    RealtimePhysicalData(
          [asset_id |-> id,
           timestamp |-> IF ts # None THEN ts ELSE UtcNow,
           temperature |-> Get(ld, "temperature"),
           humidity |-> Get(ld, "humidity"),
           level |-> Get(ld, "level")])

\* the lines after the loop of get_realtime_physical_data
realtime_physical_return(id, ld, ts) ==
    IF ld = EmptyDict THEN None
    ELSE RealtimePhysicalData(
          [asset_id |-> id,
           timestamp |-> IF ts # None THEN ts ELSE UtcNow,
           temperature |-> Get(ld, "temperature"),
           humidity |-> Get(ld, "humidity"),
           level |-> Get(ld, "level")])

\* the lines after the loop of the two historical functions
historical_return(id, start, end, gd) ==
    IF gd = EmptyDict THEN None
    ELSE GroupedHistoricalData(id, start, end, gd)

\* what function f returns once its loop is over
return_value(f, id, start, end, acc) ==
    CASE f = "get_realtime_electrical_data" ->
           realtime_electrical_return(id, acc.latest_data, acc.latest_timestamp)
      [] f = "get_realtime_physical_data" ->
           realtime_physical_return(id, acc.latest_data, acc.latest_timestamp)
      [] f \in HistoricalFunctions ->
           historical_return(id, start, end, acc.grouped_data)

\* routers: `if data is None` (realtime), `if data is None or not data.data`
\* (historical) raise 404; otherwise the object is answered with 200
router_status(f, data) ==
    IF data = None THEN 404
    ELSE IF f \in HistoricalFunctions /\ data.data = EmptyDict THEN 404
    ELSE 200

-----------------------------------------------------------------------------
(* One request, from the router to its answer.  The router awaits the       *)
(* service function and answers at once, so the action in which the        *)
(* function returns also sets the status of the answer.                    *)

CurrentAcc == Acc(latest_data, latest_timestamp, grouped_data, "none")

\* the historical functions use installation_id in the query filter and as
\* asset_id only: one installation stands for all
InitRequest ==
    /\ cs_pc = "off"
    /\ cs_value = None
    /\ cs_thresholds = None
    /\ cs_severity = UNKNOWN
    /\ pc = "start"
    /\ fn \in ReadFunctions
    /\ \/ /\ fn \in RealtimeFunctions
          /\ installation_id \in Installations
          /\ start_time = None
          /\ end_time = None
       \/ /\ fn \in HistoricalFunctions
          /\ installation_id = "siteA-mainpanel"
          /\ start_time \in {Num(1), Num(2)}
          /\ end_time = Num(2)
    /\ result = "pending"
    /\ batch = <<>>
    /\ latest_data = EmptyDict
    /\ latest_timestamp = None
    /\ grouped_data = EmptyDict
    /\ ret = None
    /\ http_status = 0
    /\ WriteOff
    /\ QueryOff
    /\ ClientOff
    /\ RerunOff

\* routers: start_time >= end_time is answered 400 before the service is called
RangeAccepted ==
    fn \in HistoricalFunctions => start_time.num < end_time.num

RejectRange ==
    /\ pc = "start"
    /\ ~RangeAccepted
    /\ http_status' = 400
    /\ pc' = "responded"
    /\ UNCHANGED <<fn, installation_id, start_time, end_time, result, batch,
                   latest_data, latest_timestamp, grouped_data, ret>>
    /\ UNCHANGED <<csVars, ioVars>>

\* query_api.query returns no table: `if not result: return None`; the
\* router answers what the function returned
QueryNoTables ==
    /\ pc = "start"
    /\ RangeAccepted
    /\ result' = "no_tables"
    /\ ret' = None
    /\ http_status' = router_status(fn, ret')
    /\ pc' = "responded"
    /\ UNCHANGED <<fn, installation_id, start_time, end_time, batch,
                   latest_data, latest_timestamp, grouped_data>>
    /\ UNCHANGED <<csVars, ioVars>>

\* query_api.query returns tables: the loop starts
QueryTables ==
    /\ pc = "start"
    /\ RangeAccepted
    /\ result' = "tables"
    /\ pc' = "loop"
    /\ UNCHANGED <<fn, installation_id, start_time, end_time, batch,
                   latest_data, latest_timestamp, grouped_data, ret, http_status>>
    /\ UNCHANGED <<csVars, ioVars>>

\* query_api.query raises: `except Exception: return None`
QueryRaises ==
    /\ pc = "start"
    /\ RangeAccepted
    /\ result' = "error"
    /\ ret' = None
    /\ http_status' = router_status(fn, ret')
    /\ pc' = "responded"
    /\ UNCHANGED <<fn, installation_id, start_time, end_time, batch,
                   latest_data, latest_timestamp, grouped_data>>
    /\ UNCHANGED <<csVars, ioVars>>

\* one iteration of the loop over the records; an exception the inner except
\* does not catch reaches `except Exception: return None`
ConsumeRecord(record) ==
    /\ pc = "loop"
    /\ Len(batch) < MaxBatch
    /\ LET acc == loop_body(fn, installation_id, CurrentAcc, record)
       IN  /\ latest_data' = acc.latest_data
           /\ latest_timestamp' = acc.latest_timestamp
           /\ grouped_data' = acc.grouped_data
           /\ IF acc.outcome = "raised"
              THEN /\ ret' = None
                   /\ http_status' = router_status(fn, ret')
                   /\ pc' = "responded"
              ELSE /\ ret' = ret
                   /\ http_status' = http_status
                   /\ pc' = "loop"
    /\ batch' = Append(batch, record)
    /\ UNCHANGED <<fn, installation_id, start_time, end_time, result>>
    /\ UNCHANGED <<csVars, ioVars>>

\* the loop is over: the function returns and the router answers
EndOfRecords ==
    /\ pc = "loop"
    /\ ret' = return_value(fn, installation_id, start_time, end_time, CurrentAcc)
    /\ http_status' = router_status(fn, ret')
    /\ pc' = "responded"
    /\ UNCHANGED <<fn, installation_id, start_time, end_time, result, batch,
                   latest_data, latest_timestamp, grouped_data>>
    /\ UNCHANGED <<csVars, ioVars>>

Init == InitRequest

Next ==
    \/ RejectRange
    \/ QueryNoTables
    \/ QueryTables
    \/ QueryRaises
    \/ \E record \in RecordsOf(fn) : ConsumeRecord(record)
    \/ EndOfRecords

Spec == Init /\ [][Next]_vars

-----------------------------------------------------------------------------
(* The service functions as functions of the whole batch *)

RECURSIVE run_loop(_, _, _, _)
\* `for table in result: for record in table.records`, left when an
\* exception escapes the inner except
run_loop(f, id, acc, records) ==
    IF records = <<>> \/ acc.outcome = "raised" THEN acc
    ELSE run_loop(f, id, loop_body(f, id, acc, Head(records)), Tail(records))

\* what function f returns for a result whose tables hold the given records
service(f, id, start, end, records) ==
    LET acc == run_loop(f, id, EmptyAcc, records)
    IN  IF acc.outcome = "raised" THEN None
        ELSE return_value(f, id, start, end, acc)

-----------------------------------------------------------------------------
(* Vocabulary of the properties *)

Responded == pc = "responded" /\ http_status # 400

ServedRealtime == Responded /\ fn \in RealtimeFunctions /\ result = "tables"

ServedHistorical == Responded /\ fn \in HistoricalFunctions /\ result = "tables"

\* a record that cannot be parsed: a key is missing or the value is not a number
Unparseable(r) == ~Complete(r) \/ IsStr(r["_value"])

Parseable(r) == ~Unparseable(r)

Max(S) == CHOOSE x \in S : \A y \in S : y <= x

\* indices of the records of the batch with measurement m and field f that
\* can be parsed
Hits(m, f) ==
    {i \in 1..Len(batch) : /\ Parseable(batch[i])
                           /\ batch[i]["_measurement"] = m
                           /\ batch[i]["_field"] = f}

\* the value of the last record of the batch for (m, f), None without one
LastValue(m, f) ==
    IF Hits(m, f) = {} THEN None ELSE batch[Max(Hits(m, f))]["_value"]

\* the value held by a VariableValue that may be absent
ValueOf(vv) == IF vv = None THEN None ELSE vv.value

\* member ph of a PhaseData that may be absent
Member(pd, ph) == IF pd = None THEN None ELSE pd[ph]

PhaseMeasurements ==
    {"voltage", "current", "active_power", "apparent_power",
     "reactive_power", "power_factor"}

\* the VariableValues of a snapshot, each with its measurement
SnapshotValues(f, snap) ==
    IF f = "get_realtime_electrical_data"
    THEN {<<m, Member(snap[m], ph)>> : m \in PhaseMeasurements, ph \in {"a", "b", "c"}}
         \cup {<<"frequency", snap.frequency>>,
               <<"energy", snap.total_energy_kwh>>,
               <<"active_power", snap.total_active_power>>}
    ELSE {<<m, snap[m]>> : m \in {"temperature", "humidity", "level"}}

\* the VariableValues held by the accumulator, each with its measurement
AccumulatedValues ==
    IF fn = "get_realtime_electrical_data"
    THEN UNION {{<<m, latest_data[m][f]>> : f \in DOMAIN latest_data[m]} :
                m \in DOMAIN latest_data}
    ELSE IF fn = "get_realtime_physical_data"
    THEN {<<m, latest_data[m]>> : m \in DOMAIN latest_data}
    ELSE {}

\* the registry holds a threshold set for the installation and the measurement
RegistryHolds(id, m) ==
    LET config == get_thresholds_for_installation(id)
    IN  /\ config # None
        /\ m \in DOMAIN config
        /\ config[m] # None

SeverityJustified(id, pair) ==
    LET m == pair[1]
        vv == pair[2]
    IN  vv # None =>
          /\ vv.severity \in SeverityLevel
          /\ vv.value = None => vv.severity = UNKNOWN
          /\ ~RegistryHolds(id, m) => vv.severity = UNKNOWN

-----------------------------------------------------------------------------
(* Properties *)

\* C1: for every value (number or absent) and every threshold set (absent,
\* or any of the four bounds defined or not) the result of
\* _calculate_severity is the one of the ordered decision list: UNKNOWN when
\* the value or the thresholds are absent; else CRITICAL_LOW when
\* critical_low is defined and value < critical_low; else LOW when low is
\* defined and value < low; else CRITICAL_HIGH when critical_high is defined
\* and value > critical_high; else HIGH when high is defined and
\* value > high; else NORMAL.
C1_DecisionList ==
    cs_pc = "done" =>
      IF cs_value = None \/ cs_thresholds = None
      THEN cs_severity = UNKNOWN
      ELSE LET v == cs_value.num
               t == cs_thresholds
               r1 == "critical_low" \in DOMAIN t /\ v < t.critical_low
               r2 == "low" \in DOMAIN t /\ v < t.low
               r3 == "critical_high" \in DOMAIN t /\ v > t.critical_high
               r4 == "high" \in DOMAIN t /\ v > t.high
           IN  /\ r1 => cs_severity = CRITICAL_LOW
               /\ (~r1 /\ r2) => cs_severity = LOW
               /\ (~r1 /\ ~r2 /\ r3) => cs_severity = CRITICAL_HIGH
               /\ (~r1 /\ ~r2 /\ ~r3 /\ r4) => cs_severity = HIGH
               /\ (~r1 /\ ~r2 /\ ~r3 /\ ~r4) => cs_severity = NORMAL

\* a value below low and above critical_high at once, with all four bounds
\* defined: the order of the rules decides, and LOW is the answer
C1_Witness ==
    /\ cs_pc = "done"
    /\ cs_value # None
    /\ cs_thresholds # None
    /\ DOMAIN cs_thresholds = BoundNames
    /\ cs_value.num >= cs_thresholds.critical_low
    /\ cs_value.num < cs_thresholds.low
    /\ cs_value.num > cs_thresholds.critical_high
    /\ cs_severity = LOW

\* C2: in the realtime path a VariableValue carries a severity other than
\* UNKNOWN only if its value is not null and the registry holds a threshold
\* set for the installation and the value's measurement; this holds of every
\* value the accumulator holds and of every value of the returned snapshot.
C2_SeverityNeedsThresholds ==
    /\ \A pair \in AccumulatedValues : SeverityJustified(installation_id, pair)
    /\ (ServedRealtime /\ ret # None) =>
          \A pair \in SnapshotValues(fn, ret) : SeverityJustified(installation_id, pair)

\* a returned snapshot that holds a classified value next to the values
\* of a batch
C2_Witness ==
    /\ ServedRealtime
    /\ ret # None
    /\ \E pair \in SnapshotValues(fn, ret) :
          pair[2] # None /\ pair[2].severity \notin {UNKNOWN, NORMAL}
    /\ \E pair \in AccumulatedValues : pair[2].severity = UNKNOWN

\* C3: in the realtime path a record that cannot be parsed is skipped on its
\* own: for a batch that holds such a record together with records that can
\* be parsed, the function returns the snapshot built from the records that
\* can be parsed, and never absent.
C3_BadRecordSkippedAlone ==
    (/\ ServedRealtime
     /\ \E i \in 1..Len(batch) : Unparseable(batch[i])
     /\ \E i \in 1..Len(batch) : Parseable(batch[i]))
    => /\ ret # None
       /\ ret = service(fn, installation_id, start_time, end_time,
                        SelectSeq(batch, Parseable))

\* C4: a realtime function returns a snapshot only if at least one record
\* of the batch was mapped into a VariableValue; when every record is
\* skipped the result is absent.
C4_SnapshotNeedsMappedRecord ==
    (ServedRealtime /\ ret # None) =>
        \E i \in 1..Len(batch) : Parseable(batch[i])

\* C5: the data map of a returned GroupedHistoricalData holds no series
\* whose list of points is empty.
C5_NoEmptySeries ==
    (ServedHistorical /\ ret # None) =>
        \A name \in DOMAIN ret.data : ret.data[name] # <<>>

\* C6: when the store returns an empty batch (no tables, or tables without
\* records) each of the four read functions returns absent, and the router
\* answers not found.
C6_EmptyBatchAbsent ==
    (/\ Responded
     /\ result = "no_tables" \/ (result = "tables" /\ batch = <<>>))
    => (ret = None /\ http_status = 404)

\* a read function that found tables without records and returned
C6_Witness ==
    /\ Responded
    /\ result = "tables"
    /\ batch = <<>>
    /\ fn = "get_realtime_physical_data"
    /\ ret = None

\* C7: the historical functions return absent whenever no record of the
\* batch yields a point, also for a batch in which every record is skipped;
\* the router then answers not found.
C7_NoPointMeansAbsent ==
    (/\ ServedHistorical
     /\ \A i \in 1..Len(batch) :
           ~(Complete(batch[i]) /\ IsNum(batch[i]["_value"])))
    => (ret = None /\ http_status = 404)

\* C8 as stated: the timestamp of a returned realtime snapshot is the
\* maximum record time over all the records of the batch.
C8_TimestampIsBatchMax ==
    (ServedRealtime /\ ret # None) =>
        ret.timestamp =
          Num(Max({batch[i]["_time"] :
                     i \in {j \in 1..Len(batch) : "_time" \in DOMAIN batch[j]}}))

\* C8 as amended: the timestamp of a returned realtime snapshot is the
\* maximum time over the records of the batch that carry all four of
\* measurement, field, value and time, whatever their order; a record
\* skipped for a missing key does not count.
C8_TimestampIsMaxOfReadRecords ==
    (ServedRealtime /\ ret # None) =>
        /\ \E i \in 1..Len(batch) : Complete(batch[i])
        /\ ret.timestamp =
             Num(Max({batch[i]["_time"] :
                        i \in {j \in 1..Len(batch) : Complete(batch[j])}}))

\* a snapshot of a batch whose latest record is not the last one
C8_Witness ==
    /\ ServedRealtime
    /\ ret # None
    /\ Len(batch) >= 2
    /\ Complete(batch[1])
    /\ Complete(batch[2])
    /\ batch[1]["_time"] > batch[2]["_time"]
    /\ ret.timestamp = Num(batch[1]["_time"])

\* C9: in the electrical snapshot the members a, b, c of the PhaseData of
\* each phase measurement hold the values of the records with field phase_a,
\* phase_b, phase_c of that measurement, null for a phase without record;
\* frequency is the field value, total_energy_kwh the field total_kwh of
\* energy, total_active_power the field total of active_power.
C9_PhaseAssembly ==
    (ServedRealtime /\ fn = "get_realtime_electrical_data" /\ ret # None) =>
        /\ \A m \in PhaseMeasurements :
              /\ ValueOf(Member(ret[m], "a")) = LastValue(m, "phase_a")
              /\ ValueOf(Member(ret[m], "b")) = LastValue(m, "phase_b")
              /\ ValueOf(Member(ret[m], "c")) = LastValue(m, "phase_c")
        /\ ValueOf(ret.frequency) = LastValue("frequency", "value")
        /\ ValueOf(ret.total_energy_kwh) = LastValue("energy", "total_kwh")
        /\ ValueOf(ret.total_active_power) = LastValue("active_power", "total")

\* C10: in the physical snapshot, when the batch holds several records for
\* a measurement and one of them has the field value, the entry of the
\* measurement is the one built from the last record with the field value,
\* wherever it sits among the records with other fields.
C10_ValueFieldWins ==
    (ServedRealtime /\ fn = "get_realtime_physical_data" /\ ret # None) =>
        \A m \in {"temperature", "humidity", "level"} :
            (/\ Hits(m, "value") # {}
             /\ Cardinality({i \in 1..Len(batch) :
                               Complete(batch[i]) /\ batch[i]["_measurement"] = m}) >= 2)
            => /\ ret[m] # None
               /\ ret[m].value = LastValue(m, "value")

-----------------------------------------------------------------------------
(* The historical functions alone, over records that give the series names  *)
(* their cases: two fields of frequency, a per-phase measurement, an energy *)
(* counter                                                                  *)

HistoricalElectricalPairs ==
    {<<"active_power", "phase_a">>, <<"frequency", "value">>,
     <<"frequency", "total">>, <<"energy", "total_kwh">>}

\* a null, 50.0 and 230.0 (half units)
HistoricalValues == {None, Num(100), Num(460)}

HistoricalElectricalRecords ==
    {Rec(p[1], p[2], v, t) : p \in HistoricalElectricalPairs,
                             v \in HistoricalValues, t \in Times}
        \cup Lacking("active_power", "phase_a")

HistoricalRecordsOf(f) ==
    IF f = "get_historical_electrical_data"
    THEN HistoricalElectricalRecords
    ELSE PhysicalRecords

InitHistorical ==
    /\ InitRequest
    /\ fn \in HistoricalFunctions

NextHistorical ==
    \/ RejectRange
    \/ QueryNoTables
    \/ QueryTables
    \/ QueryRaises
    \/ \E record \in HistoricalRecordsOf(fn) : ConsumeRecord(record)
    \/ EndOfRecords

SpecHistorical == InitHistorical /\ [][NextHistorical]_vars

-----------------------------------------------------------------------------
(* Vocabulary of the properties of the series *)

\* the names as they are expected to read, letter by letter
Titlecase(s) ==
    CASE s = "active_power" -> <<"A", "c", "t", "i", "v", "e", " ", "P", "o", "w", "e", "r">>
      [] s = "voltage"      -> <<"V", "o", "l", "t", "a", "g", "e">>
      [] s = "frequency"    -> <<"F", "r", "e", "q", "u", "e", "n", "c", "y">>
      [] s = "energy"       -> <<"E", "n", "e", "r", "g", "y">>
      [] s = "temperature"  -> <<"T", "e", "m", "p", "e", "r", "a", "t", "u", "r", "e">>
      [] s = "level"        -> <<"L", "e", "v", "e", "l">>
      [] s = "phase_a"      -> <<"P", "h", "a", "s", "e", " ", "A">>
      [] s = "value"        -> <<"V", "a", "l", "u", "e">>
      [] s = "total"        -> <<"T", "o", "t", "a", "l">>
      [] s = "total_kwh"    -> <<"T", "o", "t", "a", "l", " ", "K", "w", "h">>
      [] s = "tank_1"       -> <<"T", "a", "n", "k", " ", "1">>

\* a record that is not skipped: it has its four keys and a numeric value
YieldsPoint(r) == Complete(r) /\ IsNum(r["_value"])

\* point p carries the time and the value of record r
SamePoint(p, r) == p.timestamp = Num(r["_time"]) /\ p.value = r["_value"]

ElectricalSeriesName(r) ==
    IF r["_measurement"] \in {"frequency", "energy"}
    THEN Titlecase(r["_measurement"])
    ELSE Titlecase(r["_measurement"]) \o <<" ">> \o Titlecase(r["_field"])

PhysicalSeriesName(r) ==
    IF r["_field"] # "value" /\ r["_value"] # None
    THEN Titlecase(r["_measurement"]) \o <<" ">> \o Titlecase(r["_field"])
    ELSE Titlecase(r["_measurement"])

SeriesName(f, r) ==
    IF f = "get_historical_electrical_data"
    THEN ElectricalSeriesName(r)
    ELSE PhysicalSeriesName(r)

\* the records of the batch that yield a point of series name, in order
RecordsOfSeries(name) ==
    SelectSeq(batch, LAMBDA r : YieldsPoint(r) /\ SeriesName(fn, r) = name)

RECURSIVE TotalPoints(_, _)
\* number of points of the series of data named in names
TotalPoints(data, names) ==
    IF names = {} THEN 0
    ELSE LET n == CHOOSE x \in names : TRUE
         IN  Len(data[n]) + TotalPoints(data, names \ {n})

\* every record of the batch that is not skipped has its point in the series
\* named by name_of, and every point of every series comes from such a record
FiledUnder(name_of(_)) ==
    /\ \A i \in 1..Len(batch) :
          YieldsPoint(batch[i]) =>
             /\ ret # None
             /\ name_of(batch[i]) \in DOMAIN ret.data
             /\ \E k \in 1..Len(ret.data[name_of(batch[i])]) :
                   SamePoint(ret.data[name_of(batch[i])][k], batch[i])
    /\ ret # None =>
          \A name \in DOMAIN ret.data :
             \A k \in 1..Len(ret.data[name]) :
                \E i \in 1..Len(batch) :
                   /\ YieldsPoint(batch[i])
                   /\ name_of(batch[i]) = name
                   /\ SamePoint(ret.data[name][k], batch[i])

-----------------------------------------------------------------------------
(* Properties of the series *)

\* C11: on the electrical historical path every point is filed under
\* Titlecase(measurement) + ' ' + Titlecase(field), underscores read as
\* spaces, except that points of frequency and energy are filed under
\* Titlecase(measurement) alone whatever their field, so that two frequency
\* records with different fields land in the same series.
C11_ElectricalSeriesNames ==
    (ServedHistorical /\ fn = "get_historical_electrical_data")
    => FiledUnder(ElectricalSeriesName)

\* two frequency records with different fields, both with a point, answered
\* with the one series Frequency of two points
C11_Witness ==
    /\ ServedHistorical
    /\ fn = "get_historical_electrical_data"
    /\ Len(batch) = 2
    /\ YieldsPoint(batch[1]) /\ YieldsPoint(batch[2])
    /\ batch[1]["_measurement"] = "frequency"
    /\ batch[2]["_measurement"] = "frequency"
    /\ batch[1]["_field"] # batch[2]["_field"]
    /\ ret # None
    /\ DOMAIN ret.data = {<<"F", "r", "e", "q", "u", "e", "n", "c", "y">>}
    /\ Len(ret.data[<<"F", "r", "e", "q", "u", "e", "n", "c", "y">>]) = 2

\* C12: on the physical historical path every point is filed under
\* Titlecase(measurement), with ' ' + Titlecase(field) appended exactly when
\* the field is not 'value' and the value of the record is not null; a record
\* of field 'value' is always filed under the bare measurement name.
C12_PhysicalSeriesNames ==
    (ServedHistorical /\ fn = "get_historical_physical_data")
    => /\ FiledUnder(PhysicalSeriesName)
       /\ \A i \in 1..Len(batch) :
             (YieldsPoint(batch[i]) /\ batch[i]["_field"] = "value") =>
                \E k \in 1..Len(ret.data[Titlecase(batch[i]["_measurement"])]) :
                   SamePoint(ret.data[Titlecase(batch[i]["_measurement"])][k],
                             batch[i])

\* a level of field 'value' and a level of field 'tank_1' answered in the two
\* series Level and Level Tank 1
C12_Witness ==
    /\ ServedHistorical
    /\ fn = "get_historical_physical_data"
    /\ Len(batch) = 2
    /\ YieldsPoint(batch[1]) /\ YieldsPoint(batch[2])
    /\ batch[1]["_measurement"] = "level" /\ batch[1]["_field"] = "value"
    /\ batch[2]["_measurement"] = "level" /\ batch[2]["_field"] = "tank_1"
    /\ ret # None
    /\ DOMAIN ret.data = {<<"L", "e", "v", "e", "l">>,
                          <<"L", "e", "v", "e", "l", " ", "T", "a", "n", "k", " ", "1">>}

\* C13: within each series of a returned GroupedHistoricalData the points
\* are in the order in which their records were consumed: none is reordered,
\* dropped as a duplicate or moved to another series, and the number of
\* points over all series is the number of records that were not skipped.
C13_SeriesKeepConsumptionOrder ==
    (ServedHistorical /\ ret # None) =>
       /\ \A name \in DOMAIN ret.data :
             /\ Len(ret.data[name]) = Len(RecordsOfSeries(name))
             /\ \A k \in 1..Len(ret.data[name]) :
                   SamePoint(ret.data[name][k], RecordsOfSeries(name)[k])
       /\ TotalPoints(ret.data, DOMAIN ret.data)
             = Cardinality({i \in 1..Len(batch) : YieldsPoint(batch[i])})

\* two records of one series consumed latest first and answered in that order
C13_Witness ==
    /\ ServedHistorical
    /\ ret # None
    /\ Len(batch) = 2
    /\ YieldsPoint(batch[1]) /\ YieldsPoint(batch[2])
    /\ batch[1]["_time"] > batch[2]["_time"]
    /\ \E name \in DOMAIN ret.data :
          /\ Len(ret.data[name]) = 2
          /\ ret.data[name][1].timestamp = Num(batch[1]["_time"])
          /\ ret.data[name][2].timestamp = Num(batch[2]["_time"])

-----------------------------------------------------------------------------
(* services/data_provider.py: write_sensor_data, and routers/ingest.py      *)
(*                                                                         *)
(* A str of the event is a sequence of characters, so that float(str)      *)
(* parses it.  The model does not tell an int from a float: both are       *)
(* [num |-> n], n in half units.                                           *)

Bool(b) == [bool |-> b]

IsBool(v) == "bool" \in DOMAIN v

Digits == {"0", "1", "2", "3", "4", "5", "6", "7", "8", "9"}

DigitValue(c) ==
    CASE c = "0" -> 0 [] c = "1" -> 1 [] c = "2" -> 2 [] c = "3" -> 3
      [] c = "4" -> 4 [] c = "5" -> 5 [] c = "6" -> 6 [] c = "7" -> 7
      [] c = "8" -> 8 [] c = "9" -> 9

RECURSIVE Decimal(_)
\* the number written by a sequence of digits
Decimal(cs) ==
    IF cs = <<>> THEN 0
    ELSE 10 * Decimal(SubSeq(cs, 1, Len(cs) - 1)) + DigitValue(cs[Len(cs)])

AllDigits(cs) == cs # <<>> /\ \A i \in 1..Len(cs) : cs[i] \in Digits

\* float(str) for the strings of the model: digits, or digits '.' and one
\* digit that is 0 or 5 (a number of halves); a string holding any other
\* character is a ValueError
float_of_str(cs) ==
    LET dots == {i \in 1..Len(cs) : cs[i] = "."}
    IN  IF dots = {}
        THEN IF AllDigits(cs) THEN Num(2 * Decimal(cs))
             ELSE Raised("ValueError")
        ELSE LET d == CHOOSE i \in dots : TRUE
                 whole == SubSeq(cs, 1, d - 1)
                 frac == SubSeq(cs, d + 1, Len(cs))
             IN  IF Cardinality(dots) = 1 /\ AllDigits(whole)
                    /\ Len(frac) = 1 /\ frac[1] \in {"0", "5"}
                 THEN Num(2 * Decimal(whole) + (IF frac[1] = "5" THEN 1 ELSE 0))
                 ELSE Raised("ValueError")

\* float(value): a number is itself, True is 1.0 and False is 0.0 (bool is
\* a subclass of int), a str is parsed, None is a TypeError
py_float(value) ==
    CASE IsNum(value)  -> value
      [] IsBool(value) -> IF value.bool THEN Num(2) ELSE Num(0)
      [] IsStr(value)  -> float_of_str(value.str)
      [] OTHER         -> Raised("TypeError")

\* processed_value = value, without the attempt of float(value)
processed_value_as_given(value) == value

\* try: processed_value = float(value)
\* except (ValueError, TypeError): processed_value = value
processed_value(value) ==
    IF IsRaised(py_float(value)) THEN value ELSE py_float(value)

\* point.tag("installation_id", installation_id), then point.tag(key, value)
\* for the tags of the event: Point.tag is self._tags[key] = value
point_tags(id, tags) ==
    LET mandatory == Put(EmptyDict, "installation_id", id)
    IN  IF tags = None \/ tags = EmptyDict THEN mandatory
        ELSE [k \in DOMAIN tags \cup DOMAIN mandatory |->
                 IF k \in DOMAIN tags THEN tags[k] ELSE mandatory[k]]

\* point.field(key, processed_value) for every field of the event
point_fields(fields) ==
    [k \in DOMAIN fields |-> processed_value(fields[k])]

\* the Point as it is when `if not data.fields` is evaluated
point_before_fields(id, data) ==
    [measurement |-> data.measurement,
     tags |-> point_tags(id, data.tags),
     fields |-> EmptyDict,
     time |-> None]

\* the Point handed to write_api.write
point_to_write(id, data) ==
    [measurement |-> data.measurement,
     tags |-> point_tags(id, data.tags),
     fields |-> point_fields(data.fields),
     time |-> data.timestamp]

\* every event is taken to have fields
has_fields_unchecked(data) == TRUE

\* `if not data.fields: return False`, negated
has_fields(data) == data.fields # EmptyDict

\* the failure of the store is answered as a success
write_except_true == Bool(TRUE)

\* `except Exception as e: ...; return False`
write_except == Bool(FALSE)

\* routers/ingest.py: `if not success: raise HTTPException(500)`, else 202
ingest_status(success) == IF success = Bool(TRUE) THEN 202 ELSE 500

FieldKeys == {"value", "mode"}

\* 22.5, "22.5", "auto", true and false
FieldValues ==
    {Num(45), Str(<<"2", "2", ".", "5">>), Str(<<"a", "u", "t", "o">>),
     Bool(TRUE), Bool(FALSE)}

FieldMaps == UNION {[S -> FieldValues] : S \in SUBSET FieldKeys}

\* no tags, an empty map, a tag of the sender, and a tag named installation_id
TagMaps ==
    {None, EmptyDict,
     Put(EmptyDict, "location", "rack2"),
     Put(EmptyDict, "installation_id", "siteB-annex"),
     Put(Put(EmptyDict, "location", "rack2"), "installation_id", "siteB-annex")}

Events ==
    [timestamp : {Num(1)}, measurement : {"temperature"},
     fields : FieldMaps, tags : TagMaps]

WriteStart ==
    /\ wr_pc = "start"
    /\ wr_installation_id \in Installations
    /\ wr_data \in Events
    /\ wr_point = None
    /\ wr_writes = <<>>
    /\ wr_outcome = "pending"
    /\ wr_ret = None
    /\ wr_status = 0

InitWrite ==
    /\ ClassifierOff
    /\ RequestOff
    /\ WriteStart
    /\ QueryOff
    /\ ClientOff
    /\ RerunOff

\* get_write_api_async() raises: no Point is built
WriteApiRaises ==
    /\ wr_pc = "start"
    /\ wr_outcome' = "error"
    /\ wr_ret' = write_except
    /\ wr_status' = ingest_status(wr_ret')
    /\ wr_pc' = "responded"
    /\ UNCHANGED <<wr_installation_id, wr_data, wr_point, wr_writes>>
    /\ UNCHANGED <<csVars, reqVars, qVars, dbVars, rrVars>>

\* the event has no fields: the function returns False with the Point
\* tagged and never written
WriteNoFields ==
    /\ wr_pc = "start"
    /\ ~has_fields(wr_data)
    /\ wr_point' = point_before_fields(wr_installation_id, wr_data)
    /\ wr_outcome' = "no_fields"
    /\ wr_ret' = Bool(FALSE)
    /\ wr_status' = ingest_status(wr_ret')
    /\ wr_pc' = "responded"
    /\ UNCHANGED <<wr_installation_id, wr_data, wr_writes>>
    /\ UNCHANGED <<csVars, reqVars, qVars, dbVars, rrVars>>

\* write_api.write returns: the function returns True
WriteAccepted ==
    /\ wr_pc = "start"
    /\ has_fields(wr_data)
    /\ wr_point' = point_to_write(wr_installation_id, wr_data)
    /\ wr_writes' = Append(wr_writes, wr_point')
    /\ wr_outcome' = "written"
    /\ wr_ret' = Bool(TRUE)
    /\ wr_status' = ingest_status(wr_ret')
    /\ wr_pc' = "responded"
    /\ UNCHANGED <<wr_installation_id, wr_data>>
    /\ UNCHANGED <<csVars, reqVars, qVars, dbVars, rrVars>>

\* write_api.write raises: `except Exception: return False`
WriteRaises ==
    /\ wr_pc = "start"
    /\ has_fields(wr_data)
    /\ wr_point' = point_to_write(wr_installation_id, wr_data)
    /\ wr_writes' = Append(wr_writes, wr_point')
    /\ wr_outcome' = "error"
    /\ wr_ret' = write_except
    /\ wr_status' = ingest_status(wr_ret')
    /\ wr_pc' = "responded"
    /\ UNCHANGED <<wr_installation_id, wr_data>>
    /\ UNCHANGED <<csVars, reqVars, qVars, dbVars, rrVars>>

NextWrite ==
    \/ WriteApiRaises
    \/ WriteNoFields
    \/ WriteAccepted
    \/ WriteRaises

SpecWrite == InitWrite /\ [][NextWrite]_vars

-----------------------------------------------------------------------------
(* Properties of write_sensor_data *)

WriteResponded == wr_pc = "responded"

\* the Point got its fields: the function went past `if not data.fields`
PointComplete == WriteResponded /\ wr_point # None /\ wr_point.time # None

\* what the numeric coercion of the values of the model is expected to
\* give, None where it is expected to fail
NumericCoercion(v) ==
    CASE v = Num(45)                         -> Num(45)
      [] v = Str(<<"2", "2", ".", "5">>)     -> Num(45)
      [] v = Bool(TRUE)                      -> Num(2)
      [] v = Bool(FALSE)                     -> Num(0)
      [] v = Str(<<"a", "u", "t", "o">>)     -> None

\* C14: write_sensor_data called with an event whose field map is empty
\* returns false and hands no record to the store, whatever the tags, the
\* measurement and the timestamp of the event.
C14_NoFieldsNoWrite ==
    (WriteResponded /\ wr_data.fields = EmptyDict)
    => /\ wr_ret = Bool(FALSE)
       /\ wr_writes = <<>>
       /\ wr_status = 500

\* an event with tags and no fields, answered after `if not data.fields`
C14_Witness ==
    /\ WriteResponded
    /\ wr_outcome = "no_fields"
    /\ wr_data.fields = EmptyDict
    /\ wr_data.tags = Put(EmptyDict, "location", "rack2")
    /\ wr_ret = Bool(FALSE)

C16_InstallationTagIsArgument ==
    (WriteResponded /\ wr_point # None)
    => wr_point.tags["installation_id"] = wr_installation_id

-----------------------------------------------------------------------------
(* The service layer as a whole: one request, a read or an ingest *)

InitService ==
    \/ InitRequest
    \/ InitWrite

NextService ==
    \/ RejectRange
    \/ QueryNoTables
    \/ QueryTables
    \/ QueryRaises
    \/ \E record \in RecordsOf(fn) : ConsumeRecord(record)
    \/ EndOfRecords
    \/ WriteApiRaises
    \/ WriteNoFields
    \/ WriteAccepted
    \/ WriteRaises

SpecService == InitService /\ [][NextService]_vars

\* C17: a failure of a store call (the query or the write raising) never
\* leaves the service layer and never yields a partly built object: each of
\* the four read functions returns absent (answered not found) and
\* write_sensor_data returns false (answered 500).
C17_StoreFailureContained ==
    /\ (pc = "responded" /\ result = "error")
          => (ret = None /\ http_status = 404)
    /\ (WriteResponded /\ wr_outcome = "error")
          => (wr_ret = Bool(FALSE) /\ wr_status = 500)

\* a historical query that raised, answered as absent
C17_Witness ==
    /\ pc = "responded"
    /\ result = "error"
    /\ fn = "get_historical_electrical_data"
    /\ batch = <<>>
    /\ ret = None

-----------------------------------------------------------------------------
(* core/db_client.py and the shutdown hook of main.py                       *)
(*                                                                         *)
(* Handles are numbered in the order of their construction.  The requests  *)
(* run as coroutines of one event loop: get_influxdb_client has no await,  *)
(* so each call of it is one step; close_influxdb_client awaits close()    *)
(* between its test of the slot and its reset of the slot, so other        *)
(* coroutines run in between.                                              *)

\* a handle is constructed at every call
get_influxdb_client_fresh(client, created) ==
    [client |-> Num(created + 1), created |-> created + 1]

\* get_influxdb_client(): the slot and the number of handles constructed
\* after the call; the handle returned is the slot
get_influxdb_client(client, created) ==
    IF client = None
    THEN [client |-> Num(created + 1), created |-> created + 1]
    ELSE [client |-> client, created |-> created]

InitClient ==
    /\ ClassifierOff
    /\ RequestOff
    /\ WriteOff
    /\ QueryOff
    /\ RerunOff
    /\ db_pc = "running"
    /\ db_client = None
    /\ db_created = 0
    /\ db_closed = {}
    /\ db_calls = <<>>

\* get_query_api() / get_write_api_async() called by a request: api is
\* "query" or "write"
GetApi(api) ==
    /\ db_pc # "off"
    /\ Len(db_calls) < MaxCalls
    /\ LET got == get_influxdb_client(db_client, db_created)
       IN  /\ db_client' = got.client
           /\ db_created' = got.created
           /\ db_calls' = Append(db_calls,
                                 [api |-> api, handle |-> got.client, at |-> db_pc])
    /\ UNCHANGED <<db_pc, db_closed>>
    /\ UNCHANGED <<csVars, reqVars, wrVars, qVars, rrVars>>

GetQueryApi == GetApi("query")

GetWriteApi == GetApi("write")

\* shutdown_event: close_influxdb_client up to its await
CloseBegin ==
    /\ db_pc = "running"
    /\ db_pc' = IF db_client # None THEN "closing" ELSE "closed"
    /\ UNCHANGED <<db_client, db_created, db_closed, db_calls>>
    /\ UNCHANGED <<csVars, reqVars, wrVars, qVars, rrVars>>

\* close() is over: the slot is reset
CloseEnd ==
    /\ db_pc = "closing"
    /\ db_closed' = db_closed \cup {db_client.num}
    /\ db_client' = None
    /\ db_pc' = "closed"
    /\ UNCHANGED <<db_created, db_calls>>
    /\ UNCHANGED <<csVars, reqVars, wrVars, qVars, rrVars>>

NextClient ==
    \/ GetQueryApi
    \/ GetWriteApi
    \/ CloseBegin
    \/ CloseEnd

SpecClient == InitClient /\ [][NextClient]_vars

\* the calls made before the shutdown began
CallsBeforeShutdown == {i \in 1..Len(db_calls) : db_calls[i].at = "running"}

\* the handles constructed and not yet closed
OpenHandles == (1..db_created) \ db_closed

\* C18: the connection handle is created once, on first use, and reused:
\* every call of get_influxdb_client made before the shutdown returns the
\* same handle, at most one handle exists at any time, and
\* close_influxdb_client at shutdown releases that handle and leaves the
\* slot empty.
C18_OneHandleReusedAndReleased ==
    /\ \A i, j \in CallsBeforeShutdown : db_calls[i].handle = db_calls[j].handle
    /\ Cardinality(OpenHandles) <= 1
    /\ (db_pc = "closed" /\ \A i \in 1..Len(db_calls) : db_calls[i].at # "closed")
          => (db_client = None /\ OpenHandles = {})

\* a query and a write served by the one handle, which the shutdown closed
C18_Witness ==
    /\ db_pc = "closed"
    /\ Len(db_calls) = 2
    /\ db_calls[1] = [api |-> "query", handle |-> Num(1), at |-> "running"]
    /\ db_calls[2] = [api |-> "write", handle |-> Num(1), at |-> "running"]
    /\ db_created = 1
    /\ db_closed = {1}
    /\ db_client = None

-----------------------------------------------------------------------------
(* services/data_provider.py: the Flux queries of the four read functions   *)
(*                                                                         *)
(* A Flux query works on a stream of tables.  from() gives one table per   *)
(* series (measurement, field, tag set), its rows in time order; range and *)
(* filter keep rows; group() without columns puts all rows into one        *)
(* table, the tables one after the other; last() keeps the last row of     *)
(* each table.  Time is counted in minutes.                                *)

\* range(start: -5m)
LookbackMinutes == 5

\* the instant of the query: the two latest times of the store are inside
\* the lookback window, the earlier ones outside
QueryNow == MaxTime + LookbackMinutes - 1

\* the list `measurements` of read function f
measurements(f) ==
    CASE f = "get_realtime_electrical_data" ->
           {"voltage", "current", "active_power", "apparent_power",
            "reactive_power", "power_factor", "frequency", "energy"}
      [] f = "get_realtime_physical_data" ->
           {"temperature", "humidity", "level"}
      [] f = "get_historical_electrical_data" ->
           {"voltage", "current", "active_power", "energy", "frequency",
            "power_factor"}
      [] f = "get_historical_physical_data" ->
           {"temperature", "humidity", "level"}

\* |> range(start: ..., stop: ...): start inclusive, stop exclusive, no stop
\* is now
flux_range(rows, start, stop) ==
    {p \in rows : start <= p.time /\ p.time < stop}

\* |> filter(fn: (r) => r["_measurement"] == "a" or r["_measurement"] == "b" ...)
\* and |> filter(fn: (r) => contains(value: r._measurement, set: [...]))
flux_filter_measurement(rows, names) ==
    {p \in rows : p.measurement \in names}

\* |> filter(fn: (r) => r["installation_id"] == "...")
flux_filter_installation(rows, id) ==
    {p \in rows : p.installation_id = id}

\* the series of the rows: from() groups by measurement, field and tags
flux_series(rows) ==
    {<<p.measurement, p.field, p.installation_id>> : p \in rows}

\* the last row of the table of series s
flux_last_of_series(rows, s) ==
    CHOOSE p \in rows :
       /\ <<p.measurement, p.field, p.installation_id>> = s
       /\ \A o \in rows :
             <<o.measurement, o.field, o.installation_id>> = s => o.time <= p.time

\* |> group() |> last(): the one table of all rows ends with the last row
\* of the table that came last, and the order of the tables is not fixed
flux_group_last(rows) ==
    {flux_last_of_series(rows, s) : s \in flux_series(rows)}

\* the FluxRecord of a row
flux_record(p) == Rec(p.measurement, p.field, p.value, p.time)

\* the rows the query of realtime function f selects before group()
latest_query_rows(f, id, store) ==
    flux_filter_installation(
        flux_filter_measurement(
            flux_range(store, QueryNow - LookbackMinutes, QueryNow),
            measurements(f)),
        id)

\* the rows the query of historical function f returns
range_query_rows(f, id, start, stop, store) ==
    flux_filter_installation(
        flux_filter_measurement(flux_range(store, start, stop), measurements(f)),
        id)

StorePairs ==
    {<<"voltage", "phase_a">>, <<"apparent_power", "phase_a">>,
     <<"temperature", "value">>}

StoreTimes == 0..MaxTime

\* the points a bucket may hold: every pair at every time for the first
\* installation, one point of the second
StorePoints ==
    {[measurement |-> p[1], field |-> p[2], installation_id |-> "siteA-mainpanel",
      time |-> t, value |-> Num(460)] : p \in StorePairs, t \in StoreTimes}
        \cup {[measurement |-> "voltage", field |-> "phase_a",
               installation_id |-> "siteB-annex", time |-> MaxTime,
               value |-> Num(460)]}

InitQuery ==
    /\ ClassifierOff
    /\ RequestOff
    /\ WriteOff
    /\ ClientOff
    /\ RerunOff
    /\ q_pc = "ready"
    /\ q_fn \in ReadFunctions
    /\ q_installation_id \in Installations
    /\ \/ /\ q_fn \in RealtimeFunctions
          /\ q_start = None
          /\ q_stop = None
       \/ /\ q_fn \in HistoricalFunctions
          /\ q_start \in {Num(0), Num(1)}
          /\ q_stop = Num(MaxTime)
    /\ q_store \in SUBSET StorePoints
    /\ q_records = {}

\* query_api.query of a realtime function
RunLatestQuery ==
    /\ q_pc = "ready"
    /\ q_fn \in RealtimeFunctions
    /\ LET rows == latest_query_rows(q_fn, q_installation_id, q_store)
       IN  IF rows = {}
           THEN q_records' = {}
           ELSE \E p \in flux_group_last(rows) : q_records' = {flux_record(p)}
    /\ q_pc' = "done"
    /\ UNCHANGED <<q_fn, q_installation_id, q_start, q_stop, q_store>>
    /\ UNCHANGED <<csVars, reqVars, wrVars, dbVars, rrVars>>

\* query_api.query of a historical function
RunRangeQuery ==
    /\ q_pc = "ready"
    /\ q_fn \in HistoricalFunctions
    /\ q_records' = {flux_record(p) :
                        p \in range_query_rows(q_fn, q_installation_id,
                                               q_start.num, q_stop.num, q_store)}
    /\ q_pc' = "done"
    /\ UNCHANGED <<q_fn, q_installation_id, q_start, q_stop, q_store>>
    /\ UNCHANGED <<csVars, reqVars, wrVars, dbVars, rrVars>>

NextQuery ==
    \/ RunLatestQuery
    \/ RunRangeQuery

SpecQuery == InitQuery /\ [][NextQuery]_vars

-----------------------------------------------------------------------------
(* Properties of the queries *)

\* the realtime function of the domain of function f
RealtimeOf(f) ==
    IF f \in {"get_realtime_electrical_data", "get_historical_electrical_data"}
    THEN "get_realtime_electrical_data"
    ELSE "get_realtime_physical_data"

\* the points of the store that match the latest-value query: of the
\* installation, of a measurement of the domain, inside the lookback window
MatchingPoints ==
    {p \in q_store : /\ p.installation_id = q_installation_id
                     /\ p.measurement \in measurements(RealtimeOf(q_fn))
                     /\ p.time >= QueryNow - LookbackMinutes}

MatchingPairs == {<<p.measurement, p.field>> : p \in MatchingPoints}

\* the most recent time of the matching points of a pair
LatestTime(pair) ==
    Max({p.time : p \in {x \in MatchingPoints : <<x.measurement, x.field>> = pair}})

\* C19: the latest-value query of the realtime functions returns, for every
\* distinct (measurement, field) pair with a matching record in the lookback
\* window, exactly one record, the most recent one of that pair: a batch for
\* an installation with n distinct pairs holds n records.
C19_OneRecordPerPair ==
    (q_pc = "done" /\ q_fn \in RealtimeFunctions) =>
       /\ \A pair \in MatchingPairs :
             {r \in q_records : <<r["_measurement"], r["_field"]>> = pair}
                = {Rec(pair[1], pair[2], Num(460), LatestTime(pair))}
       /\ Cardinality(q_records) = Cardinality(MatchingPairs)

\* C20: for each domain the range query of the historical function filters
\* on the same measurement names and the same installation as the
\* latest-value query of the realtime function: a point of the range is
\* returned exactly when it is of the installation and of a measurement of
\* the realtime query.
C20_SameFiltersAsRealtime ==
    (q_pc = "done" /\ q_fn \in HistoricalFunctions) =>
       \A p \in q_store :
          (q_start.num <= p.time /\ p.time < q_stop.num) =>
             (flux_record(p) \in q_records
                <=> (/\ p.installation_id = q_installation_id
                     /\ p.measurement \in measurements(RealtimeOf(q_fn))))

-----------------------------------------------------------------------------
(* A read function called twice for the same batch                          *)
(*                                                                         *)
(* The accumulators are locals of the call and the registry is rebuilt by  *)
(* _get_thresholds_for_installation at every call; the one thing a call    *)
(* reads besides its arguments and the batch is the clock, in              *)
(* `latest_timestamp or datetime.utcnow()`.  The clock moves between two   *)
(* calls: utcnow() of call n is [utcnow |-> n].                            *)

\* the value returned by call n, its datetime.utcnow() read at that call
utcnow_of_call(r, n) ==
    IF "timestamp" \in DOMAIN r /\ r.timestamp = UtcNow
    THEN [r EXCEPT !.timestamp = [utcnow |-> n]]
    ELSE r

\* the accumulators kept from the call before
accumulators_left_behind(left) == left

\* `latest_data = {}`, `latest_timestamp = None`, `grouped_data = {}` at the
\* head of each read function: whatever the call before left, the
\* accumulators of a call start empty
fresh_accumulators(left) == EmptyAcc

\* the accumulators of function f after its loop over records, for a call
\* that comes after one that left the accumulators `left`
loop_again(f, id, records, left) ==
    run_loop(f, id, fresh_accumulators(left), records)

\* the read function is called again with the same arguments and the store
\* hands it the same records in the same order
CallAgain ==
    /\ pc = "responded"
    /\ result = "tables"
    /\ rr_run = 0
    /\ rr_first' = utcnow_of_call(ret, 1)
    /\ \E acc \in {loop_again(fn, installation_id, batch, CurrentAcc)} :
           /\ latest_data' = acc.latest_data
           /\ latest_timestamp' = acc.latest_timestamp
           /\ grouped_data' = acc.grouped_data
           /\ ret' = IF acc.outcome = "raised" THEN None
                     ELSE utcnow_of_call(
                              return_value(fn, installation_id, start_time,
                                           end_time, acc), 2)
    /\ http_status' = router_status(fn, ret')
    /\ rr_run' = 1
    /\ UNCHANGED <<pc, fn, installation_id, start_time, end_time, result, batch>>
    /\ UNCHANGED <<csVars, wrVars, qVars, dbVars>>

\* the batches of the two runs: two series of each domain, a null and two
\* numbers, every time, and the records that lack a key
RerunRecordsOf(f) ==
    IF f \in {"get_realtime_electrical_data", "get_historical_electrical_data"}
    THEN {Rec(p[1], p[2], v, t) :
              p \in {<<"voltage", "phase_a">>, <<"frequency", "value">>},
              v \in HistoricalValues, t \in Times}
             \cup Lacking("voltage", "phase_a")
    ELSE {Rec(p[1], p[2], v, t) :
              p \in {<<"temperature", "value">>, <<"level", "tank_1">>},
              v \in HistoricalValues, t \in Times}
             \cup Lacking("temperature", "value")

NextRerun ==
    \/ RejectRange
    \/ QueryNoTables
    \/ QueryTables
    \/ QueryRaises
    \/ \E record \in RerunRecordsOf(fn) : ConsumeRecord(record)
    \/ EndOfRecords
    \/ CallAgain

SpecRerun == InitRequest /\ [][NextRerun]_vars

\* C21: the record mapper is a pure function of its batch and of the
\* registry: the realtime or the historical mapping run twice on the same
\* batch (same records, same order) with the same registry gives the same
\* output, the timestamp of the snapshot included, and the first run leaves
\* nothing behind that changes the second: the answer and the status of the
\* second call are those of the first.
C21_SameBatchSameOutput ==
    rr_run = 1 =>
       /\ ret = rr_first
       /\ http_status = router_status(fn, rr_first)

\* a snapshot of two records answered twice with the time of the later one
C21_Witness ==
    /\ rr_run = 1
    /\ fn = "get_realtime_physical_data"
    /\ Len(batch) = 2
    /\ batch[1] = Rec("temperature", "value", Num(100), 2)
    /\ batch[2] = Rec("temperature", "value", Num(460), 1)
    /\ rr_first # None
    /\ rr_first.timestamp = Num(2)
    /\ ret = rr_first

-----------------------------------------------------------------------------
(* Requests that run while close_influxdb_client is at its await, or after *)
(* it                                                                      *)

\* the handles on which close() has been started: the one in the slot while
\* close_influxdb_client waits for close(), and the ones whose close() is over
CloseStarted ==
    db_closed \cup (IF db_pc = "closing" THEN {db_client.num} ELSE {})

\* the calls made once close_influxdb_client had begun
CallsAfterShutdownBegan ==
    {i \in 1..Len(db_calls) : db_calls[i].at # "running"}

\* C22: under any interleaving of the requests with close_influxdb_client,
\* no request is handed a handle on which close has been started: a call of
\* get_query_api / get_write_api_async made once the close has begun never
\* returns the handle being closed, and no handle created after the
\* shutdown began is left unreleased when the shutdown is over.
C22_NoHandleUnderCloseHandedOut ==
    /\ \A i \in CallsAfterShutdownBegan :
           db_calls[i].handle.num \notin CloseStarted
    /\ db_pc = "closed" => OpenHandles = {}

====
